---- MODULE Spec2Model ----
(***************************************************************************)
(* ReScience article metadata: the name formatting functions, the author   *)
(* list builder, the Contributor record and the Article construction of    *)
(* article.py, and the command-line driver of yaml-to-latex.py.            *)
(*                                                                         *)
(* A Python str is a sequence of one-character strings ("" is <<>>), so    *)
(* that split, strip, join and indexing are computed, not assumed.  A call *)
(* returns Ok(v), or Raise(e, m) when the Python code raises the exception *)
(* e with the message m.                                                   *)
(***************************************************************************)
EXTENDS Integers, Sequences, FiniteSets, TLC

VARIABLES
    arg_name,      \* harness: the name passed to get_lastname / get_abbrvname
    arg_authors,   \* harness: the list passed to get_author_list
    called,        \* harness: which function has been called ("none" before)
    ret,           \* harness: what the call returned or raised
    contributor,   \* a Contributor object: <<>> before construction, <<c>> after
    document,      \* the YAML document given to Article(data), as far as read
    pc,            \* position of yaml-to-latex.py / Article.__init__
    self,          \* the Article under construction (its attributes)
    article,       \* the variable `article` of yaml-to-latex.py: <<>> or <<model>>
    exc,           \* the unhandled exception [type, msg, at]; type "none" if none
    stdout,        \* lines printed by the driver
    outfile        \* whether the output file has been written

vars == <<arg_name, arg_authors, called, ret, contributor, document, pc, self,
          article, exc, stdout, outfile>>

(***************************************************************************)
(* Bounds of the model: the longest name and the longest list given to the *)
(* functions, and the most author and contributor entries of a document.   *)
(***************************************************************************)
MaxNameLen == 6
MaxListLen == 4
MaxAuthors == 2
MaxContribs == 3

\* Characters of the names the harness enumerates.
Chars == {"a", "I", "V", " ", ",", "-"}

(***************************************************************************)
(* Python str and list primitives.                                         *)
(***************************************************************************)
Ok(v) == [exc |-> "none", msg |-> "", val |-> v]
Raise(e, m) == [exc |-> e, msg |-> m, val |-> <<>>]

\* the elements of a list
Range(xs) == {xs[k] : k \in 1..Len(xs)}

\* c in s, for a one-character c
Contains(s, c) == \E k \in 1..Len(s) : s[k] = c

\* s.split(c): the pieces between the occurrences of c, empty pieces kept
RECURSIVE split(_, _)
split(s, c) ==
    IF s = <<>> THEN << <<>> >>
    ELSE LET r == split(Tail(s), c)
         IN  IF Head(s) = c THEN << <<>> >> \o r
             ELSE << <<Head(s)>> \o Head(r) >> \o Tail(r)

\* s.lstrip() and s.strip(): the space is the only whitespace of the model
RECURSIVE lstrip(_)
lstrip(s) == IF s # <<>> /\ Head(s) = " " THEN lstrip(Tail(s)) ELSE s

RECURSIVE rstrip(_)
rstrip(s) ==
    IF s # <<>> /\ s[Len(s)] = " " THEN rstrip(SubSeq(s, 1, Len(s) - 1)) ELSE s

strip(s) == rstrip(lstrip(s))

\* sep.join(parts)
RECURSIVE join(_, _)
join(sep, parts) ==
    IF parts = <<>> THEN <<>>
    ELSE IF Len(parts) = 1 THEN parts[1]
    ELSE parts[1] \o sep \o join(sep, Tail(parts))

\* c.upper() for one character: every lower-case ASCII letter becomes its
\* capital, every other character of the model (capitals, digits, space,
\* punctuation) is returned unchanged
LOWERCASE ==
    <<"a", "b", "c", "d", "e", "f", "g", "h", "i", "j", "k", "l",
      "m", "n", "o", "p", "q", "r", "s", "t", "u", "v", "w", "x",
      "y", "z">>
UPPERCASE ==
    <<"A", "B", "C", "D", "E", "F", "G", "H", "I", "J", "K", "L",
      "M", "N", "O", "P", "Q", "R", "S", "T", "U", "V", "W", "X",
      "Y", "Z">>
upper(c) ==
    IF \E k \in 1..Len(LOWERCASE) : LOWERCASE[k] = c
    THEN UPPERCASE[CHOOSE k \in 1..Len(LOWERCASE) : LOWERCASE[k] = c]
    ELSE c

\* xs[-k:] and xs[:-k] of a Python list, k >= 1
LastK(xs, k) == SubSeq(xs, IF Len(xs) > k THEN Len(xs) - k + 1 ELSE 1, Len(xs))
DropLastK(xs, k) == SubSeq(xs, 1, Len(xs) - k)

SUFFIXES == {<<"I","I">>, <<"I","I","I">>, <<"I","V">>, <<"V">>, <<"V","I">>,
             <<"V","I","I">>, <<"V","I","I","I">>, <<"I","X">>, <<"X">>}

(***************************************************************************)
(* get_lastname                                                            *)
(***************************************************************************)
get_lastname_nosuffix(name) ==
    IF name = <<>> THEN Ok(<<>>)
    ELSE IF Contains(name, ",") THEN Ok(strip(split(name, ",")[1]))
    ELSE LET toks == split(name, " ") IN Ok(toks[Len(toks)])

get_lastname(name) ==
    IF name = <<>> THEN Ok(<<>>)
    ELSE IF Contains(name, ",") THEN Ok(strip(split(name, ",")[1]))
    ELSE LET toks == split(name, " ")
             lastname == toks[Len(toks)]
         IN  IF lastname \in SUFFIXES THEN Ok(join(<<" ">>, LastK(toks, 2)))
             ELSE Ok(lastname)

(***************************************************************************)
(* get_abbrvname                                                           *)
(***************************************************************************)
\* s.upper()
upper_str(s) == [k \in 1..Len(s) |-> upper(s[k])]

\* s[0].strip().upper(), for a non-empty s
initial(s) == upper_str(strip(<<s[1]>>))

\* the inner loop over firstname.split("-"): acc is abbrvname so far
RECURSIVE abbrv_parts(_, _)
abbrv_parts(parts, acc) ==
    IF parts = <<>> THEN Ok(acc)
    ELSE IF Head(parts) = <<>> THEN Raise("IndexError", "string index out of range")
    ELSE abbrv_parts(Tail(parts), acc \o initial(Head(parts)) \o <<".", "-">>)

\* the loop over firstnames: acc is abbrvname so far
RECURSIVE abbrv_firstnames(_, _)
abbrv_firstnames(firstnames, acc) ==
    IF firstnames = <<>> THEN Ok(acc)
    ELSE LET firstname == Head(firstnames)
         IN  IF Contains(firstname, "-")
             THEN LET r == abbrv_parts(split(firstname, "-"), acc)
                  IN  IF r.exc # "none" THEN r
                      ELSE abbrv_firstnames(Tail(firstnames),
                                            SubSeq(r.val, 1, Len(r.val) - 1))
             ELSE IF firstname = <<>>
             THEN Raise("IndexError", "string index out of range")
             ELSE abbrv_firstnames(Tail(firstnames),
                                   acc \o initial(firstname) \o <<".">>)

get_abbrvname(name) ==
    IF name = <<>> THEN Ok(<<>>)
    ELSE LET comma == Contains(name, ",")
             toks == split(name, " ")
             last == toks[Len(toks)]
             lastname ==
                 IF comma THEN split(name, ",")[1]
                 ELSE IF last \in SUFFIXES THEN join(<<" ">>, LastK(toks, 2))
                 ELSE last
             firstnames ==
                 IF comma THEN split(strip(split(name, ",")[2]), " ")
                 ELSE IF last \in SUFFIXES THEN DropLastK(toks, 2)
                 ELSE DropLastK(toks, 1)
             r == abbrv_firstnames(firstnames, <<>>)
         IN  IF r.exc # "none" THEN r ELSE Ok(r.val \o <<" ">> \o lastname)

(***************************************************************************)
(* get_author_list                                                         *)
(***************************************************************************)
COMMA_SP == <<",", " ">>
AND_SP == <<" ", "a", "n", "d", " ">>
ET_AL == <<" ", "e", "t", " ", "a", "l", ".">>

\* the loop `for author_i in range(n_authors - 2)`, from index k (1-based)
RECURSIVE list_prefix(_, _)
list_prefix(authors, k) ==
    IF k > Len(authors) - 2 THEN <<>>
    ELSE authors[k] \o COMMA_SP \o list_prefix(authors, k + 1)

get_author_list_early_etal(authors) ==
    LET n_authors == Len(authors)
    IN  IF n_authors = 1 THEN Ok(authors[1])
        ELSE IF n_authors > 1 /\ n_authors < 3
        THEN Ok(list_prefix(authors, 1) \o authors[n_authors - 1] \o AND_SP
                \o authors[n_authors])
        ELSE IF n_authors = 0 THEN Raise("IndexError", "list index out of range")
        ELSE Ok(authors[1] \o ET_AL)

get_author_list(authors) ==
    LET n_authors == Len(authors)
    IN  IF n_authors = 1 THEN Ok(authors[1])
        ELSE IF n_authors > 1 /\ n_authors <= 3
        THEN Ok(list_prefix(authors, 1) \o authors[n_authors - 1] \o AND_SP
                \o authors[n_authors])
        ELSE IF n_authors = 0 THEN Raise("IndexError", "list index out of range")
        ELSE Ok(authors[1] \o ET_AL)

(***************************************************************************)
(* Inputs of the function harness.                                         *)
(***************************************************************************)
\* every string of at most n characters of Chars
StringsUpTo(n) == UNION {[1..k -> Chars] : k \in 0..n}
Names == StringsUpTo(MaxNameLen)

\* the per-author strings of the lists given to get_author_list
ListStrs == {<<"A">>, <<"B">>, <<"C", " ", "D">>}
AuthorLists == UNION {[1..k -> ListStrs] : k \in 0..MaxListLen}

HarnessIdle ==
    /\ arg_name = <<>>
    /\ arg_authors = <<>>
    /\ called = "none"
    /\ ret = Ok(<<>>)

ContributorIdle == contributor = <<>>

ArticleIdle ==
    /\ document = <<>>
    /\ pc = "idle"
    /\ self = <<>>
    /\ article = <<>>
    /\ exc = [type |-> "none", msg |-> "", at |-> ""]
    /\ stdout = <<>>
    /\ outfile = FALSE

articleVars == <<document, pc, self, article, exc, stdout, outfile>>

(***************************************************************************)
(* The name functions called on every bounded name.                        *)
(***************************************************************************)
InitNames ==
    /\ arg_name \in Names
    /\ arg_authors = <<>>
    /\ called = "none"
    /\ ret = Ok(<<>>)
    /\ ContributorIdle
    /\ ArticleIdle

Call_get_lastname ==
    /\ called = "none"
    /\ called' = "get_lastname"
    /\ ret' = get_lastname(arg_name)
    /\ UNCHANGED <<arg_name, arg_authors, contributor, articleVars>>

Call_get_abbrvname ==
    /\ called = "none"
    /\ called' = "get_abbrvname"
    /\ ret' = get_abbrvname(arg_name)
    /\ UNCHANGED <<arg_name, arg_authors, contributor, articleVars>>

NextNames == Call_get_lastname \/ Call_get_abbrvname

SpecNames == InitNames /\ [][NextNames]_vars

(***************************************************************************)
(* get_author_list called on every bounded list.                           *)
(***************************************************************************)
InitList ==
    /\ arg_name = <<>>
    /\ arg_authors \in AuthorLists
    /\ called = "none"
    /\ ret = Ok(<<>>)
    /\ ContributorIdle
    /\ ArticleIdle

Call_get_author_list ==
    /\ called = "none"
    /\ called' = "get_author_list"
    /\ ret' = get_author_list(arg_authors)
    /\ UNCHANGED <<arg_name, arg_authors, contributor, articleVars>>

NextList == Call_get_author_list

SpecList == InitList /\ [][NextList]_vars

(***************************************************************************)
(* Contributor: the dataclass fields, with lastname and abbrvname set by   *)
(* __post_init__.  Assigning an attribute afterwards changes that          *)
(* attribute alone: the class defines no property and no __setattr__.      *)
(***************************************************************************)
Contributor(role, name, orcid, email, affiliations) ==
    LET l == get_lastname(name)
        a == get_abbrvname(name)
    IN  IF l.exc # "none" THEN l
        ELSE IF a.exc # "none" THEN a
        ELSE Ok([role |-> role, name |-> name, orcid |-> orcid, email |-> email,
                 affiliations |-> affiliations,
                 lastname |-> l.val, abbrvname |-> a.val])

Roles == {"author", "editor", "reviewer", "translator"}

AL_RAY == <<"A", "l", " ", "R", "a", "y">>
LI_BO == <<"L", "i", ",", " ", "B", "o">>
CY_WU_II == <<"C", "y", " ", "W", "u", " ", "I", "I">>
AB_POE == <<"a", "-", "b", " ", "P", "o", "e">>
ED__POE == <<"E", "d", " ", " ", "P", "o", "e">>
RAY == <<"R", "a", "y">>

\* the names given to Contributor objects
TestNames == {<<>>, AL_RAY, LI_BO, CY_WU_II, AB_POE, ED__POE, RAY}

InitContributor ==
    /\ HarnessIdle
    /\ ContributorIdle
    /\ ArticleIdle

\* Contributor(role, name): the object exists unless __post_init__ raises
NewContributor ==
    /\ contributor = <<>>
    /\ called = "none"
    /\ \E role \in Roles, name \in TestNames :
          LET r == Contributor(role, name, <<>>, <<>>, <<>>)
          IN  /\ arg_name' = name
              /\ called' = "Contributor"
              /\ ret' = IF r.exc = "none" THEN Ok(<<>>) ELSE r
              /\ contributor' = IF r.exc = "none" THEN <<r.val>> ELSE <<>>
    /\ UNCHANGED <<arg_authors, articleVars>>

\* contributor.name = name
SetName ==
    /\ contributor # <<>>
    /\ \E name \in TestNames :
          contributor' = <<[contributor[1] EXCEPT !.name = name]>>
    /\ UNCHANGED <<arg_name, arg_authors, called, ret, articleVars>>

NextContributor == NewContributor \/ SetName

SpecContributor == InitContributor /\ [][NextContributor]_vars

(***************************************************************************)
(* Article: the attributes the author, contributor and repository parts of *)
(* parse() fill in.  The other sections of the document (title, keywords,  *)
(* dates, affiliations, review, replication, article, journal) are taken   *)
(* to be present and well formed; their attributes are not modelled.       *)
(***************************************************************************)
\* xs.remove(x): drops the first occurrence of x (x is in xs)
RECURSIVE remove(_, _)
remove(xs, x) ==
    IF xs = <<>> THEN <<>>
    ELSE IF Head(xs) = x THEN Tail(xs)
    ELSE <<Head(xs)>> \o remove(Tail(xs), x)

\* list(s): the characters of s as one-character strings
list(s) == [k \in 1..Len(s) |-> <<s[k]>>]

STAR == <<"*">>

\* Article.__init__ before parse()
NewArticle ==
    [authors |-> <<>>, editors |-> <<>>, reviewers |-> <<>>, contact |-> <<>>,
     code |-> <<>>, data |-> <<>>,
     authors_short |-> <<>>, authors_abbrv |-> <<>>, authors_full |-> <<>>]

add_contributor(a, c) ==
    IF c.role = "author" THEN Ok([a EXCEPT !.authors = Append(@, c)])
    ELSE IF c.role = "editor" THEN Ok([a EXCEPT !.editors = Append(@, c)])
    ELSE IF c.role = "reviewer" THEN Ok([a EXCEPT !.reviewers = Append(@, c)])
    ELSE Raise("IndexError", "")

\* Contributor(...) followed by self.add_contributor(...)
new_contributor(a, role, name, orcid, email, affiliations) ==
    LET c == Contributor(role, name, orcid, email, affiliations)
    IN  IF c.exc # "none" THEN c ELSE add_contributor(a, c.val)

\* one iteration of `for item in document["authors"]`
parse_author(a, item) ==
    IF item.affiliations.kind = "absent" THEN Raise("KeyError", "'affiliations'")
    ELSE IF item.affiliations.kind = "null" THEN Ok(a)
    ELSE LET s == item.affiliations.val
         IN  IF Len(s) > 1
             THEN LET affiliations == split(s, ",")
                  IN  IF STAR \in Range(affiliations)
                      THEN LET r == new_contributor(a, "author", item.name, <<>>, <<>>,
                                                    remove(affiliations, STAR))
                           IN  IF r.exc # "none" THEN r
                               ELSE Ok([r.val EXCEPT !.contact =
                                          <<r.val.authors[Len(r.val.authors)]>>])
                      ELSE new_contributor(a, "author", item.name, <<>>, <<>>,
                                           affiliations)
             ELSE new_contributor(a, "author", item.name, <<>>, <<>>, list(s))

\* one iteration of `for item in document["contributors"]`
parse_contributor(a, item) ==
    new_contributor(a, item.role, item.name, <<>>, <<>>, <<>>)

\* Repository(name, url, ...): a section that is present gives the url "u"
Repository(name, url) == [name |-> name, url |-> url]
URL == <<"u">>

\* the code and data repository sections
parse_repositories(a, has_code, has_data) ==
    IF ~has_code THEN Raise("IndexError", "Code repository not found")
    ELSE Ok([a EXCEPT !.code = Repository("code", URL),
                      !.data = Repository("data", IF has_data THEN URL ELSE <<>>)])

Field(xs, f) == [k \in 1..Len(xs) |-> xs[k][f]]

get_author_lists(authors) ==
    LET short == get_author_list(Field(authors, "lastname"))
        abbrv == get_author_list(Field(authors, "abbrvname"))
        full == get_author_list(Field(authors, "name"))
    IN  IF short.exc # "none" THEN short
        ELSE IF abbrv.exc # "none" THEN abbrv
        ELSE IF full.exc # "none" THEN full
        ELSE Ok([short |-> short.val, abbreviated |-> abbrv.val, full |-> full.val])

\* generate_latex_metadata: the attribute and index lookups of the template
generate_latex_metadata(a) ==
    IF Len(a.editors) < 1 THEN Raise("IndexError", "list index out of range")
    ELSE IF Len(a.reviewers) < 2 THEN Raise("IndexError", "list index out of range")
    ELSE IF a.contact = <<>>
    THEN Raise("AttributeError", "'str' object has no attribute 'name'")
    ELSE Ok(<<"content">>)

\* Document items.
Aff(kind, val) == [kind |-> kind, val |-> val]
AuthorItems ==
    {[name |-> AL_RAY, affiliations |-> Aff("str", <<"1">>)],
     [name |-> LI_BO, affiliations |-> Aff("str", <<"1", ",", "*">>)],
     [name |-> CY_WU_II, affiliations |-> Aff("str", <<"*", ",", "2">>)],
     [name |-> AB_POE, affiliations |-> Aff("str", <<"*">>)],
     [name |-> AL_RAY, affiliations |-> Aff("str", <<"1", ",", "2">>)],
     [name |-> LI_BO, affiliations |-> Aff("null", <<>>)],
     [name |-> AL_RAY, affiliations |-> Aff("absent", <<>>)]}
ContribItems ==
    {[role |-> "editor", name |-> AB_POE],
     [role |-> "reviewer", name |-> AL_RAY],
     [role |-> "author", name |-> LI_BO],
     [role |-> "translator", name |-> AL_RAY],
     [role |-> "reviewer", name |-> ED__POE]}

\* The document: whether it has a "code" section, and the entries and
\* sections parse() has read so far (each entry is drawn when its loop
\* reaches it; "data" is "unread" until the repository sections are read).
NewDocument(has_code) ==
    [authors |-> <<>>, contributors |-> <<>>,
     code |-> IF has_code THEN "present" ELSE "missing", data |-> "unread"]

\* an exception r leaves the program unhandled; `at` is the part that raised
Fail(r, at) ==
    /\ pc' = "raised"
    /\ exc' = [type |-> r.exc, msg |-> r.msg, at |-> at]

Init ==
    /\ HarnessIdle
    /\ ContributorIdle
    /\ \E has_code \in BOOLEAN : document = NewDocument(has_code)
    /\ pc = "start"
    /\ self = <<>>
    /\ article = <<>>
    /\ exc = [type |-> "none", msg |-> "", at |-> ""]
    /\ stdout = <<>>
    /\ outfile = FALSE

harnessVars == <<arg_name, arg_authors, called, ret, contributor>>

\* yaml-to-latex.py calls Article(file.read()); __init__ sets the defaults
StartArticle ==
    /\ pc = "start"
    /\ pc' = "authors"
    /\ self' = NewArticle
    /\ UNCHANGED <<document, article, exc, stdout, outfile, harnessVars>>

\* the next author entry of the document is parsed
ParseAuthor ==
    /\ pc = "authors"
    /\ Len(document.authors) < MaxAuthors
    /\ \E item \in AuthorItems :
          LET r == parse_author(self, item)
          IN  /\ document' = [document EXCEPT !.authors = Append(@, item)]
              /\ IF r.exc = "none"
                 THEN self' = r.val /\ UNCHANGED <<pc, exc>>
                 ELSE Fail(r, "authors") /\ UNCHANGED self
    /\ UNCHANGED <<article, stdout, outfile, harnessVars>>

\* the authors list is exhausted
EndAuthors ==
    /\ pc = "authors"
    /\ pc' = "contributors"
    /\ UNCHANGED <<document, self, article, exc, stdout, outfile, harnessVars>>

\* the next contributor entry of the document is parsed
ParseContributor ==
    /\ pc = "contributors"
    /\ Len(document.contributors) < MaxContribs
    /\ \E item \in ContribItems :
          LET r == parse_contributor(self, item)
          IN  /\ document' = [document EXCEPT !.contributors = Append(@, item)]
              /\ IF r.exc = "none"
                 THEN self' = r.val /\ UNCHANGED <<pc, exc>>
                 ELSE Fail(r, "contributors") /\ UNCHANGED self
    /\ UNCHANGED <<article, stdout, outfile, harnessVars>>

\* the contributors list is exhausted; the code and data sections are read
ParseRepositories ==
    /\ pc = "contributors"
    /\ \E has_data \in BOOLEAN :
          LET r == parse_repositories(self, document.code = "present", has_data)
          IN  /\ document' = [document EXCEPT
                                !.data = IF has_data THEN "present" ELSE "missing"]
              /\ IF r.exc = "none"
                 THEN self' = r.val /\ pc' = "lists" /\ UNCHANGED exc
                 ELSE Fail(r, "repositories") /\ UNCHANGED self
    /\ UNCHANGED <<article, stdout, outfile, harnessVars>>

\* parse() has returned; __init__ builds the author lists and returns
BuildAuthorLists ==
    /\ pc = "lists"
    /\ LET r == get_author_lists(self.authors)
       IN  IF r.exc = "none"
           THEN /\ self' = [self EXCEPT !.authors_short = r.val.short,
                                        !.authors_abbrv = r.val.abbreviated,
                                        !.authors_full = r.val.full]
                /\ article' = <<self'>>
                /\ pc' = "main"
                /\ UNCHANGED exc
           ELSE Fail(r, "lists") /\ UNCHANGED <<self, article>>
    /\ UNCHANGED <<document, stdout, outfile, harnessVars>>

\* yaml-to-latex.py after Article(...) has returned
Main ==
    /\ pc = "main"
    /\ IF Len(article[1].authors) > 0
       THEN LET r == generate_latex_metadata(article[1])
            IN  IF r.exc = "none"
                THEN outfile' = TRUE /\ pc' = "done" /\ UNCHANGED <<exc, stdout>>
                ELSE Fail(r, "main") /\ UNCHANGED <<outfile, stdout>>
       ELSE /\ stdout' = Append(stdout, "Error! No author found.")
            /\ pc' = "done"
            /\ UNCHANGED <<exc, outfile>>
    /\ UNCHANGED <<document, self, article, harnessVars>>

Next ==
    \/ StartArticle
    \/ ParseAuthor
    \/ EndAuthors
    \/ ParseContributor
    \/ ParseRepositories
    \/ BuildAuthorLists
    \/ Main

Spec == Init /\ [][Next]_vars

(***************************************************************************)
(* Properties of get_author_list (checked under SpecList).                 *)
(***************************************************************************)
\* C1: for a list of N >= 1 author strings get_author_list returns the single
\* string when N = 1, "A and B" when N = 2, "A, B and C" when N = 3, and the
\* first string followed by " et al." when N > 3; input order is kept.
C1_AuthorListGrammar ==
    (called = "get_author_list" /\ Len(arg_authors) >= 1) =>
        LET a == arg_authors
            n == Len(a)
        IN  /\ ret.exc = "none"
            /\ n = 1 => ret.val = a[1]
            /\ n = 2 => ret.val = a[1] \o <<" ", "a", "n", "d", " ">> \o a[2]
            /\ n = 3 => ret.val = a[1] \o <<",", " ">> \o a[2]
                                  \o <<" ", "a", "n", "d", " ">> \o a[3]
            /\ n > 3 => ret.val = a[1] \o <<" ", "e", "t", " ", "a", "l", ".">>

\* three distinct authors have been joined, in the order given
C1_Witness ==
    /\ called = "get_author_list"
    /\ arg_authors = << <<"B">>, <<"C", " ", "D">>, <<"A">> >>
    /\ ret.val = <<"B", ",", " ", "C", " ", "D", " ", "a", "n", "d", " ", "A">>

\* C2: for the empty list get_author_list returns the empty string and raises
\* no error.
C2_EmptyListGivesEmptyString ==
    (called = "get_author_list" /\ arg_authors = <<>>) => ret = Ok(<<>>)

(***************************************************************************)
(* Properties of the name functions (checked under SpecNames).             *)
(***************************************************************************)
\* positions of the character c in s
Positions(s, c) == {k \in 1..Len(s) : s[k] = c}
Min(S) == CHOOSE x \in S : \A y \in S : x <= y
Max(S) == CHOOSE x \in S : \A y \in S : x >= y

\* the text of s before its first c (s has one)
BeforeFirst(s, c) == SubSeq(s, 1, Min(Positions(s, c)) - 1)

\* s without its leading and trailing spaces
Trimmed(s) ==
    LET solid == {k \in 1..Len(s) : s[k] # " "}
    IN  IF solid = {} THEN <<>> ELSE SubSeq(s, Min(solid), Max(solid))

\* the final space-delimited token of s: the text after its last space
FinalToken(s) ==
    LET sp == Positions(s, " ")
    IN  IF sp = {} THEN s ELSE SubSeq(s, Max(sp) + 1, Len(s))

\* the last two space-delimited tokens of s joined by one space: the text
\* after the last space but one (all of s when it has fewer than two tokens
\* before that point)
FinalTwoTokens(s) ==
    LET sp == Positions(s, " ")
    IN  IF Cardinality(sp) < 2 THEN s
        ELSE SubSeq(s, Max(sp \ {Max(sp)}) + 1, Len(s))

ExpectedLastname(name) ==
    IF name = <<>> THEN <<>>
    ELSE IF Positions(name, ",") # {} THEN Trimmed(BeforeFirst(name, ","))
    ELSE IF FinalToken(name) \in SUFFIXES THEN FinalTwoTokens(name)
    ELSE FinalToken(name)

\* C3: get_lastname returns "" for the empty name; the trimmed text before the
\* first comma when the name has a comma (no suffix merging); otherwise the
\* final space-delimited token, or the last two tokens joined by one space
\* when the final token is an ordinal suffix.
C3_LastnameContract ==
    called = "get_lastname" => ret = Ok(ExpectedLastname(arg_name))

\* a space-form name ending in a suffix has had its last two tokens merged
C3_Witness ==
    /\ called = "get_lastname"
    /\ arg_name = <<"I", " ", "a", " ", "V">>
    /\ ret.val = <<"a", " ", "V">>

\* the initial of one given-name token: each hyphen-separated part gives its
\* uppercased first character and a period, the parts re-joined with hyphens
RECURSIVE PartInitials(_)
PartInitials(parts) ==
    IF parts = <<>> THEN <<>>
    ELSE << (IF Head(parts) = <<>> THEN <<>> ELSE <<upper(Head(parts)[1]), ".">>) >>
         \o PartInitials(Tail(parts))

TokenInitials(tok) == join(<<"-">>, PartInitials(split(tok, "-")))

RECURSIVE Initials(_)
Initials(toks) ==
    IF toks = <<>> THEN <<>> ELSE TokenInitials(Head(toks)) \o Initials(Tail(toks))

\* the given-name tokens: in comma form the tokens after the comma, in space
\* form the tokens before the last-name tokens
GivenTokens(name) ==
    IF Positions(name, ",") # {}
    THEN split(Trimmed(split(name, ",")[2]), " ")
    ELSE LET toks == split(name, " ")
         IN  IF FinalToken(name) \in SUFFIXES THEN DropLastK(toks, 2)
             ELSE DropLastK(toks, 1)

\* a name in comma form ("Last, First Middle", one comma) or space form
\* ("First Middle Last [Suffix]"): no space at either end, and every token
\* of every comma-separated segment, and every hyphen-separated part of a
\* token, has at least one character
InNameForm(name) ==
    /\ name # <<>>
    /\ name = Trimmed(name)
    /\ Cardinality(Positions(name, ",")) <= 1
    /\ \A seg \in Range(split(name, ",")) :
          \A tok \in Range(split(Trimmed(seg), " ")) :
              \A part \in Range(split(tok, "-")) : part # <<>>

\* C4: for a non-empty name in comma form or space form get_abbrvname
\* returns the initials of the given-name tokens, one space, then exactly
\* get_lastname(name); for the empty name it returns the empty string.
C4_AbbrvnameEndsWithLastname ==
    called = "get_abbrvname" =>
        /\ arg_name = <<>> => ret = Ok(<<>>)
        /\ InNameForm(arg_name) =>
              ret = Ok(Initials(GivenTokens(arg_name)) \o <<" ">>
                       \o get_lastname(arg_name).val)

(***************************************************************************)
(* Properties of Article construction and of the driver (checked under     *)
(* Spec).                                                                  *)
(***************************************************************************)
ValidRoles == {"author", "editor", "reviewer"}
NameFormats(name) == get_abbrvname(name).exc = "none"
NamesOf(xs) == [k \in 1..Len(xs) |-> xs[k].name]
WithRole(items, role) == SelectSeq(items, LAMBDA it : it.role = role)
ConstructionFailed == pc = "raised" /\ article = <<>>
Parsing == pc \in {"authors", "contributors", "lists", "main", "done"}

\* the entries read so far are those of a valid document: a code section,
\* names the name functions accept, and editors and reviewers only
ValidSoFar ==
    /\ document.code = "present"
    /\ \A k \in 1..Len(document.authors) : NameFormats(document.authors[k].name)
    /\ \A k \in 1..Len(document.contributors) :
          /\ document.contributors[k].role \in {"editor", "reviewer"}
          /\ NameFormats(document.contributors[k].name)

\* C5: for a valid document with N >= 1 author entries (affiliations absent,
\* empty, one code or a list) construction succeeds, the model's authors are
\* exactly those entries in document order, and the three author strings
\* are non-empty and formatted by the same branch of get_author_list.
C5_AuthorsKeptInOrder ==
    (ValidSoFar /\ Len(document.authors) >= 1) =>
        /\ ~ConstructionFailed
        /\ article # <<>> =>
              LET a == article[1]
              IN  /\ NamesOf(a.authors) = NamesOf(document.authors)
                  /\ a.authors_short # <<>>
                  /\ a.authors_abbrv # <<>>
                  /\ a.authors_full # <<>>
                  /\ a.authors_short = get_author_list(Field(a.authors, "lastname")).val
                  /\ a.authors_abbrv = get_author_list(Field(a.authors, "abbrvname")).val
                  /\ a.authors_full = get_author_list(Field(a.authors, "name")).val

\* C6: with zero authors the program prints "Error! No author found." and
\* writes no output file; it does not end with an unhandled exception.
C6_NoAuthorIsReported ==
    (ValidSoFar /\ document.authors = <<>> /\ pc \in {"raised", "done"}) =>
        /\ pc = "done"
        /\ stdout = <<"Error! No author found.">>
        /\ ~outfile

\* the author entry's affiliation list contains the sentinel token
Marked(item) ==
    /\ item.affiliations.kind = "str"
    /\ STAR \in Range(split(item.affiliations.val, ","))

\* C7: an author whose affiliation list contains "*" (also when it is the
\* sentinel alone) has no "*" among its recorded codes and is the contact;
\* of several marked authors the last is the contact; with none marked the
\* contact stays empty.
C7_SentinelMarksContact ==
    Parsing =>
        LET items == document.authors
            marked == {k \in 1..Len(items) : Marked(items[k])}
        IN  /\ \A k \in 1..Len(self.authors) :
                  STAR \notin Range(self.authors[k].affiliations)
            /\ IF marked = {} THEN self.contact = <<>>
               ELSE /\ self.contact # <<>>
                    /\ self.contact[1].name = items[Max(marked)].name

\* every author entry read has an affiliations value and a name that formats
AuthorsParse ==
    \A k \in 1..Len(document.authors) :
        /\ document.authors[k].affiliations.kind # "absent"
        /\ NameFormats(document.authors[k].name)

\* every contributor entry read has a name that formats
ContributorsFormat ==
    \A k \in 1..Len(document.contributors) :
        NameFormats(document.contributors[k].name)

\* C8: a document without a "code" section never yields a model, and when
\* its construction has failed the error is the one whose message names the
\* missing code repository, whatever the contributors' roles are; a
\* document that lacks only the "data" section gets the default empty data
\* repository and construction does not fail at the repository sections.
\* The documents considered have every key parse() reads before the
\* authors, author entries with an affiliations value, and author and
\* contributor names that the name functions format.
C8_MissingCodeIsTheReportedError ==
    /\ (document.code = "missing" /\ AuthorsParse /\ ContributorsFormat) =>
          /\ article = <<>>
          /\ pc = "raised" =>
                /\ exc.type = "IndexError"
                /\ exc.msg = "Code repository not found"
    /\ (document.code = "present" /\ document.data = "missing") =>
          /\ self.data = Repository("data", <<>>)
          /\ pc = "raised" => exc.at # "repositories"

\* C9: a contributor entry with a role outside {author, editor, reviewer},
\* at any position, makes construction fail with no model returned; when all
\* roles are in the set each contributor is appended, in document order, to
\* the one list of its role.
C9_RoleDispatch ==
    pc # "start" =>
        LET cs == document.contributors
            asAuthor == NamesOf(WithRole(cs, "author"))
            authors == NamesOf(self.authors)
        IN  IF \E k \in 1..Len(cs) : cs[k].role \notin ValidRoles
            THEN ConstructionFailed
            ELSE /\ NamesOf(self.editors) = NamesOf(WithRole(cs, "editor"))
                 /\ NamesOf(self.reviewers) = NamesOf(WithRole(cs, "reviewer"))
                 /\ Len(authors) >= Len(asAuthor)
                 /\ SubSeq(authors, Len(authors) - Len(asAuthor) + 1, Len(authors))
                       = asAuthor

(***************************************************************************)
(* Properties of Contributor (checked under SpecContributor).              *)
(***************************************************************************)
\* C10: in every state of a Contributor, after construction and after any
\* later assignment to name, lastname = get_lastname(name) and
\* abbrvname = get_abbrvname(name).
C10_DerivedFieldsFollowName ==
    contributor # <<>> =>
        /\ get_lastname(contributor[1].name) = Ok(contributor[1].lastname)
        /\ get_abbrvname(contributor[1].name) = Ok(contributor[1].abbrvname)

(***************************************************************************)
(* Totality of the name functions (checked under SpecNames).               *)
(***************************************************************************)
\* C11: for every name built from letters, spaces, commas and hyphens
\* (single token, doubled space, leading or trailing space, trailing comma,
\* leading, trailing or doubled hyphen in a given-name token) get_lastname
\* and get_abbrvname return a string and raise no error.
C11_NameFunctionsTotal ==
    called \in {"get_lastname", "get_abbrvname"} => ret.exc = "none"

====
